---- MODULE Spec2Model ----
(***************************************************************************)
(* Model of the interactive Mandelbrot viewer (src/src/main.rs): the       *)
(* MandelbrotApp struct, its Default construction, adjust_iterations and   *)
(* the eframe update handler, one frame per step.                          *)
(*                                                                         *)
(* Units.  Times (target_render_time, the measured render Duration) are    *)
(* counted in half seconds, so 0.5 s is 1 and the +/- step of 1.0 s is 2;  *)
(* every such value and every product max_iter * target_render_time is     *)
(* exactly representable in f64 and the quotient in adjust_iterations is   *)
(* far from an integer whenever it is not one, so the integer arithmetic   *)
(* below gives the value the f64 code gives.  Plane coordinates (x_min,    *)
(* ...) are f64 in the code and fixed-point integers here, in units of     *)
(* 1/Scale, every operation rounded to the nearest unit.                   *)
(***************************************************************************)
EXTENDS Integers, Sequences, FiniteSets, TLC

VARIABLES
    max_iter,                      \* main.rs:14
    x_min, x_max, y_min, y_max,    \* main.rs:15-18
    texture,                       \* main.rs:19  (FALSE: None, TRUE: Some)
    last_mouse_pos,                \* main.rs:20  (None or Some(<<x, y>>))
    needs_repaint,                 \* main.rs:21
    rendering,                     \* main.rs:22
    should_ignore_pending_inputs,  \* main.rs:23
    last_render_time,              \* main.rs:24  (None or Some(half seconds))
    target_render_time,            \* main.rs:25  (half seconds)
    iter_cap_user,                 \* main.rs:26
    \* history variables: what the last update call did
    did,        \* its path ("request": returned at line 208, "render": ran
                \* lines 211-241, "idle": neither; "none": no call yet), the
                \* kind of frame, the zooms and pans it applied, whether it
                \* called ctx.request_repaint, whether it started with the
                \* rendering flag set, whether it made the first
                \* render_mandelbrot call of the run, whether the call
                \* before it rendered
    call,       \* the arguments of the render_mandelbrot call it made, or None
    view_ops,   \* pans and zooms applied so far
    req_view,   \* the viewport when the pending render was last requested
    stale,      \* a render was requested since last_mouse_pos was recorded
    sample      \* a note on the last step: None in the runs of the
                \* application (Spec), the pointer input of the frame in the
                \* viewport runs (ViewSpec), the function evaluated and its
                \* result in the runs of the pure functions (FnSpec)

vars == <<max_iter, x_min, x_max, y_min, y_max, texture, last_mouse_pos,
          needs_repaint, rendering, should_ignore_pending_inputs,
          last_render_time, target_render_time, iter_cap_user,
          did, call, view_ops, req_view, stale, sample>>

\* Option<T>: None is the empty sequence, Some(v) the sequence <<v>>
None == <<>>
Some(v) == <<v>>
Get(o) == o[1]

----------------------------------------------------------------------------
(* Bounds of the model *)

MaxCap == 4          \* the cap "+" button is clicked while iter_cap_user < MaxCap
MaxTarget == 3       \* the target "+" button is clicked while the result is at most MaxTarget half seconds
MaxTicks == 7        \* a measured render duration, in half seconds
HugeTicks == 4000    \* a very slow render, in half seconds
MaxEvents == 1       \* scroll events delivered in one frame
MaxViewOps == 1      \* pans and zooms applied in one run
Scale == 1024        \* fixed-point units per plane unit
MaxBudget == 8       \* the largest max_iter passed to a function on its own
MaxSide == 3         \* the largest raster width and height rendered
MaxZooms == 2        \* zooms applied in one run of ViewSpec
MaxViewDepth == 12   \* pans and zooms applied in one run of DeepSpec

(* Program constants *)

WIDTH == 800             \* main.rs:31
HEIGHT == 800            \* main.rs:32
DefaultMaxIter == 25     \* main.rs:33
DefaultTarget == 1       \* main.rs:52, 0.5 s
TargetStep == 2          \* main.rs:101 and 106, 1.0 s
TargetFloor == 1         \* main.rs:101, 0.5 s
DefaultCap == 3          \* main.rs:53
CapFloor == 3            \* main.rs:112
MinIter == 8             \* main.rs:74
AvailW == 820            \* main.rs:252, the window the available rect spans
AvailH == 950            \* main.rs:252
USIZE_MAX == 2147483647  \* main.rs:73: what a saturating `as usize` cast of
                         \* +inf gives.  2^64-1 in the build; the model uses
                         \* the largest integer TLC has, above every ceiling
                         \* 2^iter_cap_user it is compared with.

DefaultRenderingIdle == FALSE \* (as if the app were constructed Idle)
DefaultRendering == TRUE      \* main.rs:49
DefaultNeedsRepaint == TRUE   \* main.rs:48

----------------------------------------------------------------------------
(* Arithmetic helpers *)

Min(a, b) == IF a < b THEN a ELSE b
Max(a, b) == IF a > b THEN a ELSE b

\* usize::clamp / f32::clamp (main.rs:74, 140, 141)
Clamp(v, lo, hi) == IF v < lo THEN lo ELSE IF v > hi THEN hi ELSE v

\* a / b rounded to the nearest integer, b > 0: the rounding of one f64
\* operation, in fixed point
RoundDiv(a, b) == (2 * a + b) \div (2 * b)

\* product of two fixed-point numbers
FxMul(a, b) == RoundDiv(a * b, Scale)

\* (as if the ceiling were one power of two too high)
Exp2OffByOne(n) == 2 ^ (n + 1)

\* (iter_cap_user as f64).exp2().ceil() as usize (main.rs:74)
Exp2(n) == 2 ^ n

----------------------------------------------------------------------------
(* The application object.  The handler works on a record of the struct's  *)
(* fields; the fields t_* are a trace of what the running update call has  *)
(* done so far and are not read by the code.                               *)

Fields(mi, x0, x1, y0, y1, tex, lmp, nr, rd, ig, lrt, trt, cap) ==
    [max_iter |-> mi, x_min |-> x0, x_max |-> x1, y_min |-> y0, y_max |-> y1,
     texture |-> tex, last_mouse_pos |-> lmp, needs_repaint |-> nr,
     rendering |-> rd, should_ignore_pending_inputs |-> ig,
     last_render_time |-> lrt, target_render_time |-> trt,
     iter_cap_user |-> cap,
     t_path |-> "idle", t_zooms |-> 0, t_pans |-> 0, t_pressed |-> FALSE,
     t_repaint |-> FALSE, t_call |-> None]

\* impl Default for MandelbrotApp
Default ==
    Fields(DefaultMaxIter,
           -((5 * Scale) \div 2), Scale, -((3 * Scale) \div 2), (3 * Scale) \div 2,
           FALSE, None, DefaultNeedsRepaint, DefaultRendering, FALSE,
           None, DefaultTarget, DefaultCap)

Self ==
    Fields(max_iter, x_min, x_max, y_min, y_max, texture, last_mouse_pos,
           needs_repaint, rendering, should_ignore_pending_inputs,
           last_render_time, target_render_time, iter_cap_user)

Viewport(self) == <<self.x_min, self.x_max, self.y_min, self.y_max>>

----------------------------------------------------------------------------
(* adjust_iterations *)

\* (as if a zero duration gave 0)
NewIterZeroIsNaN(m, t, d) ==
    IF d = 0 THEN 0 ELSE (m * t) \div d

\* (as if the quotient were rounded to the nearest integer)
NewIterRounded(m, t, d) ==
    IF d = 0 THEN (IF m * t = 0 THEN 0 ELSE USIZE_MAX) ELSE RoundDiv(m * t, d)

\* (self.max_iter as f64 * self.target_render_time / render_time.as_secs_f64())
\* as usize, line 73: the cast truncates toward zero and saturates; x / 0.0
\* is +inf for x > 0 and NaN (cast to 0) for x = 0.
NewIter(m, t, d) ==
    IF d = 0 THEN (IF m * t = 0 THEN 0 ELSE USIZE_MAX) ELSE (m * t) \div d

\* (as if line 74 did not clamp)
adjust_iterations_unclamped(self) ==
    IF self.last_render_time = None
    THEN self
    ELSE [self EXCEPT !.max_iter =
              NewIter(self.max_iter, self.target_render_time,
                      Get(self.last_render_time))]

adjust_iterations(self) ==
    IF self.last_render_time = None
    THEN self
    ELSE LET new_iter == NewIter(self.max_iter, self.target_render_time,
                                 Get(self.last_render_time))
         IN  [self EXCEPT !.max_iter =
                  Clamp(new_iter, MinIter, Exp2(self.iter_cap_user))]

----------------------------------------------------------------------------
(* update, lines 99-125: the five buttons.  One pointer click reaches at   *)
(* most one button in a frame.                                             *)

Buttons == {"target_minus", "target_plus", "cap_minus", "cap_plus", "rerender"}

\* (as if the "-" buttons had no floor)
ClickButtonNoFloor(self, click) ==
    CASE click = "target_minus" ->
           [self EXCEPT !.target_render_time = @ - TargetStep,
                        !.needs_repaint = TRUE]
      [] click = "target_plus" ->
           [self EXCEPT !.target_render_time = @ + TargetStep,
                        !.needs_repaint = TRUE]
      [] click = "cap_minus" ->
           [self EXCEPT !.iter_cap_user = @ - 1, !.needs_repaint = TRUE]
      [] click = "cap_plus" ->
           [self EXCEPT !.iter_cap_user = @ + 1, !.needs_repaint = TRUE]
      [] click = "rerender" ->
           [self EXCEPT !.needs_repaint = TRUE]
      [] OTHER -> self

ClickButton(self, click) ==
    CASE click = "target_minus" ->
           [self EXCEPT !.target_render_time = Max(@ - TargetStep, TargetFloor),
                        !.needs_repaint = TRUE]
      [] click = "target_plus" ->
           [self EXCEPT !.target_render_time = @ + TargetStep,
                        !.needs_repaint = TRUE]
      [] click = "cap_minus" ->
           [self EXCEPT !.iter_cap_user = Max(@ - 1, CapFloor),
                        !.needs_repaint = TRUE]
      [] click = "cap_plus" ->
           [self EXCEPT !.iter_cap_user = @ + 1, !.needs_repaint = TRUE]
      [] click = "rerender" ->
           [self EXCEPT !.needs_repaint = TRUE]
      [] OTHER -> self

----------------------------------------------------------------------------
(* update, lines 126-192: scroll and pointer input *)

\* (scroll_delta.y.signum() * 8.0 * 0.1).exp(): exp(0.8) for a scroll up,
\* exp(-0.8) for a scroll down, as <<numerator, denominator>>
zoom_factor(sign) ==
    IF sign > 0 THEN <<2225, 1000>> ELSE <<449, 1000>>

\* (as if the zoom were anchored at the centre of the viewport)
ZoomAboutCentre(self, sign, hover) ==
    IF hover = None
    THEN self
    ELSE LET width == self.x_max - self.x_min
             height == self.y_max - self.y_min
             f == zoom_factor(sign)
             new_width == RoundDiv(width * f[2], f[1])
             new_height == RoundDiv(height * f[2], f[1])
             nx_min == self.x_min + FxMul(Scale \div 2, width)
                           - FxMul(Scale \div 2, new_width)
             ny_min == self.y_min + FxMul(Scale \div 2, height)
                           - FxMul(Scale \div 2, new_height)
         IN  [self EXCEPT !.x_min = nx_min,
                          !.x_max = nx_min + new_width,
                          !.y_min = ny_min,
                          !.y_max = ny_min + new_height,
                          !.needs_repaint = TRUE,
                          !.t_zooms = @ + 1]

\* lines 135-161: one Scroll event
Zoom(self, sign, hover) ==
    IF hover = None
    THEN self
    ELSE LET mouse_x == Clamp(Get(hover)[1], 0, AvailW)
             mouse_y == Clamp(Get(hover)[2], 0, AvailH)
             mouse_norm_x == RoundDiv(mouse_x * Scale, AvailW)
             mouse_norm_y == RoundDiv(mouse_y * Scale, AvailH)
             center_x == self.x_min + FxMul(mouse_norm_x, self.x_max - self.x_min)
             center_y == self.y_min + FxMul(mouse_norm_y, self.y_max - self.y_min)
             width == self.x_max - self.x_min
             height == self.y_max - self.y_min
             f == zoom_factor(sign)
             new_width == RoundDiv(width * f[2], f[1])
             new_height == RoundDiv(height * f[2], f[1])
             nx_min == center_x - FxMul(mouse_norm_x, new_width)
             ny_min == center_y - FxMul(mouse_norm_y, new_height)
         IN  [self EXCEPT !.x_min = nx_min,
                          !.x_max = nx_min + new_width,
                          !.y_min = ny_min,
                          !.y_max = ny_min + new_height,
                          !.needs_repaint = TRUE,
                          !.t_zooms = @ + 1]

\* lines 134-163: the loop over the frame's events
RECURSIVE Scrolls(_, _, _)
Scrolls(self, events, hover) ==
    IF events = <<>>
    THEN self
    ELSE Scrolls(Zoom(self, Head(events), hover), Tail(events), hover)

\* lines 168-187: the button was released
Pan(self, hover) ==
    IF hover # None /\ self.last_mouse_pos # None
    THEN LET delta_x == Get(hover)[1] - Get(self.last_mouse_pos)[1]
             delta_y == Get(hover)[2] - Get(self.last_mouse_pos)[2]
             width == self.x_max - self.x_min
             height == self.y_max - self.y_min
             dx == -RoundDiv(delta_x * width, WIDTH)
             dy == -RoundDiv(delta_y * height, HEIGHT)
         IN  [self EXCEPT !.x_min = @ + dx, !.x_max = @ + dx,
                          !.y_min = @ + dy, !.y_max = @ + dy,
                          !.needs_repaint = TRUE,
                          !.last_mouse_pos = None,
                          !.t_pans = @ + 1]
    ELSE self

\* lines 164-188
Pointer(self, in) ==
    IF in.pressed
    THEN [self EXCEPT !.last_mouse_pos = in.hover, !.t_pressed = TRUE]
    ELSE IF in.released THEN Pan(self, in.hover) ELSE self

\* (as if input were processed in every frame)
HandleInputsWhileRendering(self, in) ==
    Pointer(Scrolls(self, in.events, in.hover), in)

\* (as if the frame after a render processed its input)
HandleInputsNoDiscard(self, in) ==
    LET s == IF self.rendering /\ ~self.should_ignore_pending_inputs
             THEN [self EXCEPT !.should_ignore_pending_inputs = TRUE]
             ELSE self
    IN  IF ~s.rendering
        THEN Pointer(Scrolls([s EXCEPT !.should_ignore_pending_inputs = FALSE],
                             in.events, in.hover), in)
        ELSE [s EXCEPT !.last_mouse_pos = None]

\* lines 126-192

HandleInputs(self, in) ==
    LET s == IF self.rendering /\ ~self.should_ignore_pending_inputs
             THEN [self EXCEPT !.should_ignore_pending_inputs = TRUE]
             ELSE self
    IN  IF ~s.rendering
        THEN IF s.should_ignore_pending_inputs
             THEN [s EXCEPT !.should_ignore_pending_inputs = FALSE,
                            !.last_mouse_pos = None]
             ELSE Pointer(Scrolls(s, in.events, in.hover), in)
        ELSE [s EXCEPT !.last_mouse_pos = None]

----------------------------------------------------------------------------
(* update, lines 194-245 *)

\* (as if line 206 were missing)
RequestRenderNoRepaint(self) ==
    [self EXCEPT !.rendering = TRUE, !.t_path = "request"]

\* lines 194-209: show "Rendering...", ask for another frame, return
RequestRender(self) ==
    [self EXCEPT !.rendering = TRUE, !.t_repaint = TRUE, !.t_path = "request"]

\* lines 211-241: render, measure, adjust, upload the texture
\* (as if the controller skipped the adjustment after the first render)
RenderNoFirstAdjust(self, dur) ==
    LET called == [self EXCEPT
                      !.t_call = Some([view |-> Viewport(self), max_iter |-> self.max_iter]),
                      !.t_path = "render"]
        timed == [called EXCEPT !.last_render_time = Some(dur)]
        adjusted == IF self.texture THEN adjust_iterations(timed) ELSE timed
    IN  [adjusted EXCEPT !.texture = TRUE,
                         !.rendering = FALSE,
                         !.should_ignore_pending_inputs = TRUE]

Render(self, dur) ==
    LET called == [self EXCEPT
                      !.t_call = Some([view |-> Viewport(self), max_iter |-> self.max_iter]),
                      !.t_path = "render"]
        timed == [called EXCEPT !.last_render_time = Some(dur)]
        adjusted == adjust_iterations(timed)
    IN  [adjusted EXCEPT !.texture = TRUE,
                         !.rendering = FALSE,
                         !.should_ignore_pending_inputs = TRUE]

\* (as if line 211 did not test the rendering flag)
updateRenderWhenIdle(self, in) ==
    LET s0 == [self EXCEPT !.needs_repaint = FALSE]
        s1 == ClickButton(s0, in.click)
        s2 == HandleInputs(s1, in)
    IN  IF s2.needs_repaint
        THEN RequestRender(s2)
        ELSE LET s3 == Render(s2, in.dur)
             IN  IF s3.needs_repaint \/ s3.rendering
                 THEN [s3 EXCEPT !.t_repaint = TRUE]
                 ELSE s3

\* fn update: `in` is what egui delivers in this frame (the button clicked,
\* the scroll events, the pointer) and the time the render takes if one runs
update(self, in) ==
    LET s0 == [self EXCEPT !.needs_repaint = FALSE]
        s1 == ClickButton(s0, in.click)
        s2 == HandleInputs(s1, in)
    IN  IF s2.needs_repaint
        THEN RequestRender(s2)
        ELSE LET s3 == IF s2.rendering THEN Render(s2, in.dur) ELSE s2
             IN  IF s3.needs_repaint \/ s3.rendering
                 THEN [s3 EXCEPT !.t_repaint = TRUE]
                 ELSE s3

----------------------------------------------------------------------------
(* service/mandelbrot_calc.rs: the escape-time count.  A Complex<f64> is a
   pair <<re, im>> of fixed-point numbers in units of 1/Scale; every f64
   product is rounded to the nearest unit. *)

\* Complex<f64> * Complex<f64>
CMul(a, b) ==
    <<FxMul(a[1], b[1]) - FxMul(a[2], b[2]),
      FxMul(a[1], b[2]) + FxMul(a[2], b[1])>>

\* Complex<f64> + Complex<f64>
CAdd(a, b) == <<a[1] + b[1], a[2] + b[2]>>

\* Complex::norm_sqr
norm_sqr(z) == FxMul(z[1], z[1]) + FxMul(z[2], z[2])

\* (as if the loop ran while i <= maxiter)
LoopContinuesInclusive(z, i, maxiter) ==
    i <= maxiter /\ norm_sqr(z) <= 4 * Scale

\* (as if the loop never tested for escape)
LoopContinuesNoEscape(z, i, maxiter) == i < maxiter

\* the loop condition of line 7
LoopContinues(z, i, maxiter) ==
    i < maxiter /\ norm_sqr(z) <= 4 * Scale

\* the while loop of lines 7-10, entered with z and i
RECURSIVE Iterate(_, _, _, _)
Iterate(z, c, i, maxiter) ==
    IF LoopContinues(z, i, maxiter)
    THEN Iterate(CAdd(CMul(z, z), c), c, i + 1, maxiter)
    ELSE i

mandelbrot_iterations(c, maxiter) == Iterate(<<0, 0>>, c, 0, maxiter)

----------------------------------------------------------------------------
(* service/mandelbrot_renderer.rs: the raster.  The tenth powers of line
   32-33 are exact in f64 for the budgets modelled (below 2^53) and exceed
   the integers TLC has, so they are carried as naturals in little-endian
   limbs of four decimal digits. *)

RECURSIVE Big(_)
Big(n) == IF n = 0 THEN <<>> ELSE <<n % 10000>> \o Big(n \div 10000)

RECURSIVE MulCarry(_, _, _)
MulCarry(a, k, carry) ==
    IF a = <<>>
    THEN Big(carry)
    ELSE LET t == a[1] * k + carry
         IN  <<t % 10000>> \o MulCarry(Tail(a), k, t \div 10000)

\* a natural in limbs times a small natural
BigMul(a, k) == IF k = 0 THEN <<>> ELSE MulCarry(a, k, 0)

RECURSIVE LeqFrom(_, _, _)
LeqFrom(a, b, i) ==
    IF i = 0 THEN TRUE
    ELSE IF a[i] # b[i] THEN a[i] < b[i]
    ELSE LeqFrom(a, b, i - 1)

BigLeq(a, b) ==
    IF Len(a) # Len(b) THEN Len(a) < Len(b) ELSE LeqFrom(a, b, Len(a))

\* f64::powf with natural arguments
RECURSIVE powf(_, _)
powf(x, e) == IF e = 0 THEN Big(1) ELSE BigMul(powf(x, e - 1), x)

\* (as if expf raised its receiver to the power of its argument)
expfOfReceiver(self, base) == powf(self, base)

\* num_complex::ComplexFloat::expf for f64: self.expf(base) is
\* base.powf(self), the argument raised to the power of the receiver
expf(self, base) == powf(base, self)

\* (k * (num / den)) as u8 for naturals in limbs: the quotient truncated
\* toward zero, saturated at 255; found by bisection between lo and hi
RECURSIVE Bisect(_, _, _, _, _)
Bisect(k, num, den, lo, hi) ==
    IF lo = hi THEN lo
    ELSE LET mid == (lo + hi + 1) \div 2
         IN  IF BigLeq(BigMul(den, mid), BigMul(num, k))
             THEN Bisect(k, num, den, mid, hi)
             ELSE Bisect(k, num, den, lo, mid - 1)

ScaledRatio_as_u8(k, num, den) == Bisect(k, num, den, 0, 255)

\* f64::ln of 1..12 in millionths, rounded to nearest
LnMicro ==
    <<0, 693147, 1098612, 1386294, 1609438, 1791759,
      1945910, 2079442, 2197225, 2302585, 2397895, 2484907>>

\* x.log(100f64) for a natural x >= 1, in millionths of ln(100): the common
\* divisor ln(100) cancels in the ratio of line 34
log100(x) == LnMicro[x]

\* `as u8` of an integer-valued f64: saturating
as_u8(v) == Clamp(v, 0, 255)

\* (255.0 * ratio) as u8 of lines 34 and 37.  Where ln(n)/ln(m) * 255 is an
\* integer in exact arithmetic (n = 2, m = 8) the f64 result is that integer
\* or the one below; the table gives the one below.
color_value(iter, maxiter) ==
    as_u8((255 * log100(iter + 1)) \div log100(maxiter + 1))

\* (255.0 * ratio2) as u8 of lines 32-33, 35 and 38
color_value2(iter, maxiter) ==
    ScaledRatio_as_u8(255, expf(10, iter + 1), expf(10, maxiter + 1))

\* (as if the interior test of line 26 were iter + 1 >= max_iter)
PixelColourOffByOne(iter, maxiter) ==
    IF iter + 1 >= maxiter
    THEN <<0, 20, 20>>
    ELSE <<100, color_value2(iter, maxiter), color_value(iter, maxiter)>>

\* lines 26-40: the colour of a pixel from its count
PixelColour(iter, maxiter) ==
    IF iter = maxiter
    THEN <<0, 20, 20>>
    ELSE <<100, color_value2(iter, maxiter), color_value(iter, maxiter)>>

\* (as if the loops of lines 17-18 were 0..=n)
RangeInclusive(n) == 0 .. n

\* the range 0..n of lines 17-18
Range(n) == 0 .. (n - 1)

\* lines 20-22: the plane point of pixel <<px, py>>
PixelPoint(px, py, width, height, x0, x1, y0, y1) ==
    <<x0 + FxMul(RoundDiv(px * Scale, width), x1 - x0),
      y0 + FxMul(RoundDiv(py * Scale, height), y1 - y0)>>

\* the raster returned: its dimensions and the colour put at every pixel
\* the loops visit
render_mandelbrot(width, height, x0, x1, y0, y1, maxiter) ==
    [width |-> width, height |-> height,
     pixels |-> [p \in Range(width) \X Range(height) |->
                    PixelColour(
                        mandelbrot_iterations(
                            PixelPoint(p[1], p[2], width, height, x0, x1, y0, y1),
                            maxiter),
                        maxiter)]]

----------------------------------------------------------------------------
(* What a frame can deliver *)

HoverPositions == {<<0, 0>>, <<410, 475>>}

RECURSIVE SeqsUpTo(_, _)
SeqsUpTo(S, n) ==
    IF n = 0
    THEN {<<>>}
    ELSE LET shorter == SeqsUpTo(S, n - 1)
         IN  shorter \cup {Append(q, e) : q \in shorter, e \in S}

\* scroll events by the sign of scroll_delta.y, the pointer position
\* (hover_pos), primary_pressed and primary_released
PointerInputs ==
    [events : SeqsUpTo({-1, 1}, MaxEvents),
     hover : {Some(h) : h \in HoverPositions} \cup {None},
     pressed : BOOLEAN,
     released : BOOLEAN]

NoPointer == [events |-> <<>>, hover |-> None, pressed |-> FALSE, released |-> FALSE]

\* render_start.elapsed(), in half seconds
Durations == {0, MaxTicks, HugeTicks}

Input(click, p, dur) ==
    [click |-> click, events |-> p.events, hover |-> p.hover,
     pressed |-> p.pressed, released |-> p.released, dur |-> dur]

----------------------------------------------------------------------------
(* The state machine: one step is one call of update *)

\* the application as MandelbrotApp::default() leaves it
Start ==
    /\ max_iter = Default.max_iter
    /\ x_min = Default.x_min
    /\ x_max = Default.x_max
    /\ y_min = Default.y_min
    /\ y_max = Default.y_max
    /\ texture = Default.texture
    /\ last_mouse_pos = Default.last_mouse_pos
    /\ needs_repaint = Default.needs_repaint
    /\ rendering = Default.rendering
    /\ should_ignore_pending_inputs = Default.should_ignore_pending_inputs
    /\ last_render_time = Default.last_render_time
    /\ target_render_time = Default.target_render_time
    /\ iter_cap_user = Default.iter_cap_user
    /\ did = [path |-> "none", frame |-> "none", zooms |-> 0, pans |-> 0,
              repaint |-> FALSE, was_rendering |-> FALSE, first |-> FALSE,
              after_render |-> FALSE]
    /\ call = None
    /\ view_ops = 0
    /\ req_view = IF Default.rendering THEN Some(Viewport(Default)) ELSE None
    /\ stale = FALSE

Init == Start /\ sample = None

\* the state after an update call that ended in n, in a run that applies
\* at most `limit` pans and zooms
ReturnWithin(n, frame, limit, note) ==
    /\ view_ops + n.t_zooms + n.t_pans <= limit
    /\ max_iter' = n.max_iter
    /\ x_min' = n.x_min
    /\ x_max' = n.x_max
    /\ y_min' = n.y_min
    /\ y_max' = n.y_max
    /\ texture' = n.texture
    /\ last_mouse_pos' = n.last_mouse_pos
    /\ needs_repaint' = n.needs_repaint
    /\ rendering' = n.rendering
    /\ should_ignore_pending_inputs' = n.should_ignore_pending_inputs
    /\ last_render_time' = n.last_render_time
    /\ target_render_time' = n.target_render_time
    /\ iter_cap_user' = n.iter_cap_user
    /\ did' = [path |-> n.t_path, frame |-> frame, zooms |-> n.t_zooms,
               pans |-> n.t_pans, repaint |-> n.t_repaint,
               was_rendering |-> rendering,
               first |-> n.t_call # None /\ ~texture,
               after_render |-> did.path = "render"]
    /\ call' = n.t_call
    /\ view_ops' = view_ops + n.t_zooms + n.t_pans
    /\ req_view' = CASE n.t_path = "request" -> Some(Viewport(n))
                     [] n.t_path = "render" -> None
                     [] OTHER -> req_view
    /\ stale' = IF n.last_mouse_pos = None THEN FALSE
                ELSE IF n.t_pressed THEN n.t_path = "request"
                ELSE stale \/ n.t_path \in {"request", "render"}
    /\ sample' = note

Return(n, frame) == ReturnWithin(n, frame, MaxViewOps, None)

\* one call of update; the clock is read only by a call that renders, so
\* the duration is drawn only then
FrameWithin(click, p, limit, note) ==
    LET frame == IF click # "none" THEN "click"
                 ELSE IF p # NoPointer THEN "pointer" ELSE "quiet"
    IN  \E probe \in {update(Self, Input(click, p, 0))} :
            IF probe.t_path = "render"
            THEN \E d \in Durations :
                     \E n \in {update(Self, Input(click, p, d))} :
                         ReturnWithin(n, frame, limit, note)
            ELSE ReturnWithin(probe, frame, limit, note)

Frame(click, p) == FrameWithin(click, p, MaxViewOps, None)

\* a frame in which one of the buttons is clicked
ClickFrame ==
    \E b \in Buttons :
        /\ b = "cap_plus" => iter_cap_user < MaxCap
        /\ b = "target_plus" => target_render_time + TargetStep <= MaxTarget
        /\ Frame(b, NoPointer)

\* a frame with scroll or pointer input and no click
PointerFrame ==
    \E p \in PointerInputs :
        /\ p # NoPointer
        /\ Frame("none", p)

\* a frame with no input at all
QuietFrame ==
    \E p \in {NoPointer} :
        /\ p.events = <<>>
        /\ Frame("none", p)

Next == ClickFrame \/ PointerFrame \/ QuietFrame

\* a click frame of a run that notes which button was clicked
NotedClickFrame ==
    \E b \in Buttons :
        /\ b = "cap_plus" => iter_cap_user < MaxCap
        /\ b = "target_plus" => target_render_time + TargetStep <= MaxTarget
        /\ FrameWithin(b, NoPointer, 0, Some(b))

ClickNext == NotedClickFrame \/ QuietFrame

Spec == Init /\ [][Next]_vars

\* update keeps being called (eframe calls it again after request_repaint)
FairSpec == Spec /\ WF_vars(Next)

\* the runs in which the only input is clicks on the buttons
ClickSpec == Init /\ [][ClickNext]_vars

\* pointer positions for the zoom anchor: a corner of the available rect,
\* a point inside it and one outside it (clamped to its right edge)
AnchorPositions == {<<0, 0>>, <<205, 900>>, <<830, 475>>}

\* scroll events with the pointer at one of the anchor positions
ScrollInputs ==
    [events : SeqsUpTo({-1, 1}, MaxEvents),
     hover : {Some(h) : h \in AnchorPositions},
     pressed : {FALSE},
     released : {FALSE}]

\* a frame with scroll events, of a run that notes the frame's input
ScrollFrame ==
    \E p \in ScrollInputs :
        /\ p.events # <<>>
        /\ FrameWithin("none", p, MaxZooms, Some(p))

ViewNext == ScrollFrame \/ QuietFrame

\* the runs in which the only input is the scroll wheel
ViewSpec == Init /\ [][ViewNext]_vars

\* input with the pointer at the centre of the window whose scroll events
\* all zoom in
ZoomInInputs ==
    {p \in PointerInputs :
        /\ p.hover = Some(<<410, 475>>)
        /\ \A k \in 1 .. Len(p.events) : p.events[k] = 1}

\* a frame that zooms in or presses or releases the button, of a run of
\* many pans and zooms
ZoomInFrame ==
    \E p \in ZoomInInputs :
        /\ p # NoPointer
        /\ FrameWithin("none", p, MaxViewDepth, Some(p))

DeepNext == ZoomInFrame \/ QuietFrame

\* the runs that pan and zoom in, many times
DeepSpec == Init /\ [][DeepNext]_vars

----------------------------------------------------------------------------
(* The two service functions on their own: a run starts with the arguments
   of one call in `sample` and its one step is the call *)

\* the fields of the application, which the service functions never touch
app ==
    <<max_iter, x_min, x_max, y_min, y_max, texture, last_mouse_pos,
      needs_repaint, rendering, should_ignore_pending_inputs,
      last_render_time, target_render_time, iter_cap_user, did, call,
      view_ops, req_view, stale>>

\* values of c in quarters of a plane unit, inside and outside the circle
\* of radius 2, and two points a single unit outside it
Points ==
    {<<(a * Scale) \div 4, (b * Scale) \div 4>> :
        a \in {-10, -8, -5, -3, 0, 1, 8, 9}, b \in {-9, -4, 0, 1, 8}}
        \cup {<<-2 * Scale, 1>>, <<2 * Scale + 1, 0>>}

Budgets == 0 .. MaxBudget

\* the default viewport and one across the boundary of the set
Views ==
    {Viewport(Default),
     <<-Scale, Scale \div 2, 0, Scale>>}

IterationsCalls ==
    {[fn |-> "mandelbrot_iterations", c |-> c, out |-> None] : c \in Points}

RenderCalls ==
    {[fn |-> "render_mandelbrot", width |-> w, height |-> h, view |-> v,
      maxiter |-> m, out |-> None] :
        w \in 0 .. MaxSide, h \in 0 .. MaxSide, v \in Views, m \in Budgets}

FnInit ==
    /\ Start
    /\ \/ \E a \in IterationsCalls : sample = Some(a)
       \/ \E a \in RenderCalls : sample = Some(a)

\* mandelbrot_iterations(c, b) for the c of the sample and every budget b
IterationsCall ==
    /\ sample # None
    /\ Get(sample).fn = "mandelbrot_iterations" /\ Get(sample).out = None
    /\ sample' = Some([Get(sample) EXCEPT !.out =
                          Some([b \in Budgets |->
                                   mandelbrot_iterations(Get(sample).c, b)])])
    /\ UNCHANGED app

\* render_mandelbrot with the arguments of the sample
RenderCall ==
    /\ sample # None
    /\ Get(sample).fn = "render_mandelbrot" /\ Get(sample).out = None
    /\ \E a \in {Get(sample)} :
           sample' = Some([a EXCEPT !.out =
                              Some(render_mandelbrot(
                                       a.width, a.height, a.view[1],
                                       a.view[2], a.view[3], a.view[4],
                                       a.maxiter))])
    /\ UNCHANGED app

FnNext == IterationsCall \/ RenderCall

FnSpec == FnInit /\ [][FnNext]_vars

----------------------------------------------------------------------------
(* Properties *)

View == <<x_min, x_max, y_min, y_max>>

\* the update call just made ran lines 211-241 (render, measure, adjust)
Rendered == did.path = "render"

\* the measured duration of the render just made, in half seconds
Measured == Get(last_render_time)

\* C1: after every budget adjustment (adjust_iterations, run after each
\* completed render) max_iter lies in [8, 2^cap] for the current cap,
\* whatever the measured duration (zero and very large included).
C1_BudgetInRange ==
    Rendered => 8 <= max_iter /\ max_iter <= 2 ^ iter_cap_user

\* a zero-duration render with the cap raised: the budget is at the ceiling
C1_Witness ==
    Rendered /\ Measured = 0 /\ iter_cap_user = 4 /\ max_iter = 16

\* C2 as claimed: when the measured duration is zero the budget is left as
\* it was (max_iter after adjust_iterations equals max_iter before it).
C2_ZeroDurationNoAdjustment ==
    (Rendered /\ Measured = 0) => max_iter = Get(call).max_iter

\* C2 as amended: when the measured duration is zero the budget becomes the
\* ceiling 2^cap (the quotient is +inf, the cast saturates, the clamp cuts
\* it to the ceiling).
C2_ZeroDurationGivesCeiling ==
    (Rendered /\ Measured = 0) => max_iter = 2 ^ iter_cap_user

\* a zero-duration render that changed the budget
C2_Witness ==
    /\ Rendered /\ Measured = 0
    /\ iter_cap_user > 3
    /\ max_iter # Get(call).max_iter

\* C3 as claimed: for a measured duration d > 0 the budget becomes
\* clamp(q, 8, 2^cap) for q an integer nearest to old_budget * target / d.
C3_RoundedToNearest ==
    (Rendered /\ Measured > 0) =>
        LET p == Get(call).max_iter * target_render_time
            d == Measured
        IN  \E q \in 0 .. p :
                /\ 2 * q * d - 2 * p <= d
                /\ 2 * p - 2 * q * d <= d
                /\ max_iter = Clamp(q, 8, 2 ^ iter_cap_user)

\* C3 as amended: for a measured duration d > 0 the budget becomes
\* clamp(q, 8, 2^cap) for q the quotient old_budget * target / d truncated
\* to an integer (q * d <= old_budget * target < (q + 1) * d).
C3_Truncated ==
    (Rendered /\ Measured > 0) =>
        LET p == Get(call).max_iter * target_render_time
            d == Measured
            hi == 2 ^ iter_cap_user
        IN  IF p < 9 * d THEN max_iter = 8
            ELSE IF p >= hi * d THEN max_iter = hi
            ELSE max_iter * d <= p /\ p < (max_iter + 1) * d

\* a render whose quotient is not an integer and is inside the clamp range
C3_Witness ==
    /\ Rendered /\ Measured > 0
    /\ 8 < max_iter /\ max_iter < 2 ^ iter_cap_user
    /\ max_iter * Measured < Get(call).max_iter * target_render_time

\* C4 as claimed: the first render is made with the default budget 25 and
\* the budget is still 25 when the update call that made it returns.
C4_FirstRenderKeepsDefault ==
    did.first => Get(call).max_iter = 25 /\ max_iter = 25

\* C4 as amended: the first render is made with the default budget 25, and
\* the controller adjusts the budget after that first render as after any
\* other: when the update call returns max_iter is in [8, 2^cap] and is the
\* clamped quotient of C2/C3 for the budget 25, so it is not 25 for a cap
\* of 3 or 4.
C4_FirstRenderAdjusts ==
    did.first =>
        /\ Get(call).max_iter = 25
        /\ 8 <= max_iter /\ max_iter <= 2 ^ iter_cap_user
        /\ LET p == 25 * target_render_time
               d == Measured
               hi == 2 ^ iter_cap_user
           IN  IF d = 0 THEN max_iter = hi
               ELSE IF p < 9 * d THEN max_iter = 8
               ELSE IF p >= hi * d THEN max_iter = hi
               ELSE max_iter * d <= p /\ p < (max_iter + 1) * d

\* the first render at the default cap: the budget went from 25 to 8
C4_Witness ==
    did.first /\ Get(call).max_iter = 25 /\ max_iter = 8 /\ iter_cap_user = 3

\* C5: every render_mandelbrot call after the first is made with a budget
\* in [8, 2^cap], cap being iter_cap_user at the time of the call.
C5_RenderBudgetInRange ==
    (call # None /\ ~did.first) =>
        /\ 8 <= Get(call).max_iter
        /\ Get(call).max_iter <= 2 ^ iter_cap_user

\* C6 as claimed: the constructed state, before any update call, is Idle
\* (the rendering flag is false).
C6_InitiallyIdle ==
    did.path = "none" => ~rendering

\* C6 as amended: the constructed state is Rendering: the rendering flag and
\* needs_repaint are true, no texture exists, and the first render is
\* pending without any render request.
C6_InitiallyRendering ==
    did.path = "none" => rendering /\ needs_repaint /\ ~texture /\ call = None

\* the constructed state
C6_Witness ==
    did.path = "none" /\ rendering /\ max_iter = 25

\* C7: an update call that starts with the rendering flag set leaves x_min,
\* x_max, y_min, y_max unchanged whatever scroll and pointer input it gets,
\* and the viewport passed to render_mandelbrot is the viewport at the end
\* of the update call that requested the render.
C7_ViewportStableWhileRendering ==
    [][rendering =>
          /\ View' = View
          /\ call' # None => Get(call').view = Get(req_view)]_vars

\* a render made in a frame that delivered pointer input, of a viewport
\* that a zoom or pan had changed
C7_Witness ==
    /\ Rendered /\ did.frame = "pointer" /\ did.was_rendering
    /\ view_ops > 0
    /\ Get(call).view = View

\* C8: the first update call after a completed render applies no zoom and
\* no pan and clears last_mouse_pos, and a press recorded before a render
\* was requested never produces a pan.
C8_PendingInputDiscarded ==
    [][/\ Rendered =>
            /\ did'.zooms = 0 /\ did'.pans = 0
            /\ View' = View
            /\ last_mouse_pos' = None
       /\ did'.pans > 0 => ~stale]_vars

\* the update call after a render got pointer input and dropped it
C8_Witness ==
    /\ did.after_render /\ did.frame = "pointer"
    /\ did.zooms = 0 /\ did.pans = 0 /\ last_mouse_pos = None

\* C9 as claimed: once a render is requested it is eventually executed and
\* the state returns to Idle, whatever clicks and input arrive.
C9_RenderEventuallyRuns ==
    rendering ~> ~rendering

\* C9 as amended: a pending render is never cancelled but a button click
\* defers it: an update call that starts in Rendering and gets no click
\* executes the render and returns to Idle, whatever scroll and pointer
\* input it gets; one that gets a click returns still Rendering, without
\* rendering.
C9_RenderRunsUnlessClicked ==
    [][rendering =>
          IF did'.frame = "click"
          THEN rendering' /\ call' = None /\ did'.path = "request"
          ELSE ~rendering' /\ call' # None /\ did'.path = "render"]_vars

\* a render after the first, executed in a frame without input
C9_Witness ==
    Rendered /\ ~did.first /\ did.frame = "quiet" /\ ~rendering

\* C10: rendering goes from false to true only in an update call in which a
\* render was requested (a click, a zoom or a pan set needs_repaint), from
\* true to false only in an update call that executed render_mandelbrot,
\* and no render is executed while the state is Idle.
C10_Transitions ==
    [][/\ (~rendering /\ rendering') =>
              /\ needs_repaint'
              /\ did'.frame = "click" \/ did'.zooms > 0 \/ did'.pans > 0
       /\ (rendering /\ ~rendering') => call' # None
       /\ call' # None => rendering /\ ~rendering']_vars

\* Idle -> Rendering by a zoom
C10_Witness ==
    ~did.was_rendering /\ rendering /\ did.zooms > 0 /\ did.path = "request"

\* C13: after any sequence of clicks on the two parameter controls the
\* target is at least 0.5 s and the cap at least 3 (so 2^cap >= 8 and the
\* clamp range is not empty); a click changes the target by exactly 1 s or
\* the cap by exactly 1, except a decrement at the floor, which leaves the
\* floor.
C13_ParameterControls ==
    [][/\ target_render_time' >= 1
       /\ iter_cap_user' >= 3 /\ 2 ^ iter_cap_user' >= 8
       /\ sample' = Some("target_plus") =>
              target_render_time' = target_render_time + 2
       /\ sample' = Some("target_minus") =>
              target_render_time' =
                  IF target_render_time >= 3 THEN target_render_time - 2 ELSE 1
       /\ sample' = Some("cap_plus") => iter_cap_user' = iter_cap_user + 1
       /\ sample' = Some("cap_minus") =>
              iter_cap_user' = IF iter_cap_user >= 4 THEN iter_cap_user - 1 ELSE 3
       /\ sample' \notin {Some("target_plus"), Some("target_minus")} =>
              target_render_time' = target_render_time
       /\ sample' \notin {Some("cap_plus"), Some("cap_minus")} =>
              iter_cap_user' = iter_cap_user]_vars

\* the cap "-" button clicked at the floor, after a render
C13_Witness ==
    sample = Some("cap_minus") /\ iter_cap_user = 3 /\ texture
        /\ target_render_time = 3

\* C11: from a viewport with x_min < x_max and y_min < y_max, after any
\* sequence of pans and zooms x_min < x_max and y_min < y_max still hold:
\* the rectangle is never flipped or collapsed.
C11_ViewportNeverCollapses ==
    x_min < x_max /\ y_min < y_max

\* the plane point under the pointer of the noted frame, in the viewport
\* <<x0, x1, y0, y1>>: the pixel-to-plane map of the renderer, with the
\* pointer clamped into the available rect and the rect as the raster
AnchorPoint(note, x0, x1, y0, y1) ==
    LET h == Get(Get(note).hover)
    IN  PixelPoint(Clamp(h[1], 0, AvailW), Clamp(h[2], 0, AvailH),
                   AvailW, AvailH, x0, x1, y0, y1)

\* b is a / f rounded to the nearest unit, for f = <<numerator, denominator>>
IsQuotient(b, a, f) ==
    /\ 2 * (b * f[1] - a * f[2]) <= f[1]
    /\ 2 * (a * f[2] - b * f[1]) <= f[1]

\* C12: a zoom keeps the anchor fixed and rescales by 1/factor: the plane
\* point under the pointer is the same before and after the zoom, and the
\* new width and height are the old ones divided by the factor (to the
\* nearest unit of the fixed-point plane, the model's rounding).
C12_ZoomKeepsAnchor ==
    [][(sample' # None /\ did'.zooms = 1) =>
          LET f == zoom_factor(Get(sample').events[1])
          IN  /\ AnchorPoint(sample', x_min', x_max', y_min', y_max')
                     = AnchorPoint(sample', x_min, x_max, y_min, y_max)
              /\ IsQuotient(x_max' - x_min', x_max - x_min, f)
              /\ IsQuotient(y_max' - y_min', y_max - y_min, f)]_vars

\* a second zoom, out, anchored off centre
C12_Witness ==
    /\ sample # None /\ did.zooms = 1 /\ view_ops = 2
    /\ Get(sample).hover = Some(<<205, 900>>)
    /\ Get(sample).events = <<-1>>
    /\ x_max - x_min > 3 * Scale

\* a completed call of mandelbrot_iterations, of render_mandelbrot
IterationsDone ==
    sample # None /\ Get(sample).fn = "mandelbrot_iterations"
        /\ Get(sample).out # None

RenderDone ==
    sample # None /\ Get(sample).fn = "render_mandelbrot"
        /\ Get(sample).out # None

\* C14: mandelbrot_iterations(0, budget) = budget for every budget >= 1:
\* the origin never escapes.
C14_OriginNeverEscapes ==
    (IterationsDone /\ Get(sample).c = <<0, 0>>) =>
        \A b \in 1 .. MaxBudget : Get(Get(sample).out)[b] = b

C14_Witness ==
    /\ IterationsDone /\ Get(sample).c = <<0, 0>>
    /\ Get(Get(sample).out)[MaxBudget] = MaxBudget

\* |c| > 2
OutsideRadius2(c) == c[1] * c[1] + c[2] * c[2] > 4 * Scale * Scale

\* C15: for c with |c| > 2 the count is non-decreasing in the budget, and
\* there is a budget from which on the count is strictly below the budget.
C15_EscapeIsMonotone ==
    (IterationsDone /\ OutsideRadius2(Get(sample).c)) =>
        LET out == Get(Get(sample).out)
        IN  /\ \A b \in 0 .. (MaxBudget - 1) : out[b] <= out[b + 1]
            /\ \E B \in Budgets : \A b \in B .. MaxBudget : out[b] < b

\* a point one unit outside the circle, which takes more than two steps
C15_Witness ==
    /\ IterationsDone /\ OutsideRadius2(Get(sample).c)
    /\ Get(Get(sample).out)[MaxBudget] > 2
    /\ Get(Get(sample).out)[MaxBudget] < MaxBudget

\* the count the renderer obtained for pixel p of the completed call
CountAt(p) ==
    LET a == Get(sample)
    IN  mandelbrot_iterations(
            PixelPoint(p[1], p[2], a.width, a.height,
                       a.view[1], a.view[2], a.view[3], a.view[4]),
            a.maxiter)

Raster == Get(Get(sample).out).pixels

\* C16: a pixel is (0, 20, 20) exactly when its count equals the budget;
\* every other pixel has red 100; every channel of every pixel is an
\* integer in [0, 255].
C16_InteriorColourIffNoEscape ==
    RenderDone =>
        \A p \in DOMAIN Raster :
            /\ Raster[p] = <<0, 20, 20>> <=> CountAt(p) = Get(sample).maxiter
            /\ CountAt(p) # Get(sample).maxiter => Raster[p][1] = 100
            /\ \A ch \in 1 .. 3 : Raster[p][ch] \in 0 .. 255

\* a raster with an interior pixel and an escaped one
C16_Witness ==
    /\ RenderDone /\ Get(sample).maxiter >= 2
    /\ \E p, q \in DOMAIN Raster :
           /\ Raster[p] = <<0, 20, 20>> /\ CountAt(p) = Get(sample).maxiter
           /\ Raster[q][1] = 100 /\ CountAt(q) < Get(sample).maxiter

\* 10^e for 0 <= e <= 9, and 0 for the larger e whose quotient is 0 anyway
TenTo(e) == IF e <= 9 THEN 10 ^ e ELSE 0

\* C17 as stated: for an escaped pixel with n = count + 1 and
\* m = budget + 1, green is 255 * 10^n / 10^m truncated and clamped into
\* [0, 255].
C17_GreenIsPowerOfTenRatio ==
    RenderDone =>
        \A p \in DOMAIN Raster :
            CountAt(p) # Get(sample).maxiter =>
                LET e == Get(sample).maxiter - CountAt(p)
                IN  Raster[p][2] = IF e <= 9 THEN 255 \div TenTo(e) ELSE 0

\* C17 as the code has it: green is 255 * n^10 / m^10 truncated, the tenth
\* powers of n and m and not the powers of ten; it lies in [0, 255].  The
\* quotient is characterised by g * m^10 <= 255 * n^10 < (g + 1) * m^10,
\* and computed in plain integers where they are wide enough (m <= 4).
C17_GreenIsTenthPowerRatio ==
    RenderDone =>
        \A p \in DOMAIN Raster :
            CountAt(p) # Get(sample).maxiter =>
                LET n == CountAt(p) + 1
                    m == Get(sample).maxiter + 1
                    g == Raster[p][2]
                IN  /\ g \in 0 .. 254
                    /\ BigLeq(BigMul(powf(m, 10), g), BigMul(powf(n, 10), 255))
                    /\ ~BigLeq(BigMul(powf(m, 10), g + 1),
                               BigMul(powf(n, 10), 255))
                    /\ m <= 4 => g = (255 * n ^ 10) \div (m ^ 10)

\* an escaped pixel two short of the budget, whose green is above 2:
\* count 6 of 8 gives 255 * 7^10 / 9^10 = 20
C17_Witness ==
    /\ RenderDone
    /\ \E p \in DOMAIN Raster :
           /\ CountAt(p) = Get(sample).maxiter - 2
           /\ Raster[p][2] >= 20

\* C18: render_mandelbrot with width 0 or height 0 returns the empty
\* raster of those dimensions: no pixel is evaluated.
C18_EmptyRaster ==
    (RenderDone /\ (Get(sample).width = 0 \/ Get(sample).height = 0)) =>
        /\ DOMAIN Raster = {}
        /\ Get(Get(sample).out).width = Get(sample).width
        /\ Get(Get(sample).out).height = Get(sample).height

C18_Witness ==
    /\ RenderDone /\ Get(sample).width = 0 /\ Get(sample).height = MaxSide
    /\ DOMAIN Raster = {}

\* C19: while the cap is 3 the budget after every completed render is
\* exactly 8, whatever the measured duration, the target and the budget
\* before.
C19_FloorCapPinsBudget ==
    (Rendered /\ iter_cap_user = 3) => max_iter = 8

\* a later render at cap 3 with a raised target and a zero duration
C19_Witness ==
    /\ Rendered /\ ~did.first /\ iter_cap_user = 3
    /\ target_render_time = 3 /\ Measured = 0 /\ max_iter = 8

\* C20: an update call that returns with the rendering flag set has called
\* request_repaint; a render is executed in a later call than the one that
\* requested it, one in which no button was clicked; a call that executes a
\* render returns with needs_repaint and rendering false, so the trailing
\* request_repaint (lines 243-245) is never reached with a true condition.
C20_NeverStranded ==
    /\ (rendering /\ did.path # "none") => did.repaint
    /\ did.path = "request" => rendering /\ call = None
    /\ Rendered =>
           /\ did.was_rendering /\ did.frame # "click"
           /\ ~needs_repaint /\ ~rendering
    /\ did.repaint => did.path = "request"

\* a call that requested a render after an earlier one had completed
C20_Witness ==
    /\ did.path = "request" /\ did.repaint /\ rendering
    /\ ~did.was_rendering /\ texture

====
